---------------------------- MODULE Spec2Model ----------------------------
(***************************************************************************)
(* Model of src/f5_tts/train/datasets/download_datasets.py: the dataset    *)
(* acquisition workflow main -> check_hf_login -> download_emilia ->       *)
(* download_libritts, with the file system under the output directory,     *)
(* the outcomes of the Hugging Face calls and of the external tools (wget,  *)
(* tar) as nondeterministic choices.                                       *)
(*                                                                         *)
(* One behaviour is a series of invocations (at most MaxRuns) against the  *)
(* same machine: the file system persists from one invocation to the next, *)
(* everything else is per invocation.                                      *)
(***************************************************************************)
EXTENDS Naturals, Sequences, FiniteSets

\* Number of invocations of the program in one behaviour.
MaxRuns == 3

(***************************************************************************)
(* Values                                                                  *)
(***************************************************************************)
\* Python's None for an Optional[str] path / an unset environment variable.
NoPath == <<"<None>">>
NoToken == "<unset>"

\* Paths are sequences of components.
Homes == { <<"home", "user">>, <<"root">> }
OutputDirArgs == { NoPath, <<"data">> }
Tokens == { NoToken, "", "hf_token" }

\* download_emilia(output_dir, revision="fc71e07")
DefaultRevision == "fc71e07"
Revisions == { DefaultRevision, "older" }

\* for lang in ["EN", "ZH"]
Langs == << "EN", "ZH" >>

\* subsets = ["train-clean-100", "train-clean-360", "train-other-500"]
Subsets == << "train-clean-100", "train-clean-360", "train-other-500" >>

\* The files of the snapshot of amphion/Emilia-Dataset at a revision, per
\* language subtree.  A revision is a commit: its content never changes.
Snapshot(rev, l) ==
    IF l = "EN"
    THEN (IF rev = DefaultRevision THEN {"en_1", "en_2"} ELSE {"en_1", "en_old"})
    ELSE (IF rev = DefaultRevision THEN {"zh_1"} ELSE {"zh_old"})

Absent == [exists |-> FALSE, files |-> {}]
Tree(fs) == [exists |-> TRUE, files |-> fs]

Prefixes(p) == { SubSeq(p, 1, k) : k \in 0..Len(p) }
Parent(p) == SubSeq(p, 1, Len(p) - 1)

VARIABLES
    pc,          \* position in the program ("idle" between invocations)
    entry,       \* the function invoked: main, or download_emilia directly
    runs,        \* invocations so far
    home,        \* the user's home directory
    arg,         \* main's output_dir argument (NoPath: not given)
    output_dir,  \* the local output_dir of the running function
    token,       \* check_hf_login's local: what os.getenv returned (NoToken
                 \* before the call, and when the variable is unset)
    revision,    \* download_emilia's revision
    lang,        \* loop index of "for lang in" (0 outside the loop)
    subset,      \* loop index of "for subset in" (0 outside the loop)
    dirs,        \* directories that exist (absolute paths)
    raw,         \* Emilia_Dataset/raw/<lang> under the output directory
    archives,    \* archive files directly under LibriTTS/
    trees,       \* extracted subset trees under LibriTTS/
    log,         \* calls made by the current invocation, in order
    rawAtStart,  \* raw when the running download_emilia was entered
    emiliaResult,\* per revision: raw as the last successful download_emilia of
                 \* an earlier invocation left it
    libriLast    \* how download_libritts last ended in an earlier invocation

vars == << pc, entry, runs, home, arg, output_dir, token, revision,
           lang, subset, dirs, raw, archives, trees, log, rawAtStart,
           emiliaResult, libriLast >>

fsVars == << dirs, raw, archives, trees >>
envVars == << home, arg >>
loopVars == << lang, subset >>
histVars == << rawAtStart, emiliaResult, libriLast >>

NoRaw == [l \in {"EN", "ZH"} |-> Absent]
Unknown == [known |-> FALSE, raw |-> NoRaw]
Known(r) == [known |-> TRUE, raw |-> r]

Ev(op, a, ok) == [op |-> op, arg |-> a, ok |-> ok]
Logged(op, a, ok) == log' = Append(log, Ev(op, a, ok))

\* The output directory a caller of the fetchers passes: main's argument, or
\* the default location when none is given.
DefaultRoot == home \o <<"datasets">>
GivenRoot == IF arg = NoPath THEN DefaultRoot ELSE arg

Init ==
    /\ pc = "idle"
    /\ entry = "none"
    /\ runs = 0
    /\ home \in Homes
    /\ arg \in OutputDirArgs
    /\ arg # NoPath => home = <<"home", "user">>
    /\ output_dir = NoPath
    /\ token = NoToken
    /\ revision = DefaultRevision
    /\ lang = 0
    /\ subset = 0
    /\ dirs = Prefixes(home)
    /\ raw = NoRaw
    /\ archives = {}
    /\ trees = [s \in 1..Len(Subsets) |-> "absent"]
    /\ log = << >>
    /\ rawAtStart = NoRaw
    /\ emiliaResult = [r \in Revisions |-> Unknown]
    /\ libriLast = "none"


(***************************************************************************)
(* Control flow                                                            *)
(***************************************************************************)
\* Variant: the interactive login is wrapped in a try/except that only reports.
RaiseSwallowsLogin(site) ==
    IF site = "login_interactive" THEN "snapshot_download" ELSE "aborted"

\* An exception nobody catches: main and the three functions have no
\* try/except but the one around whoami, so the invocation ends here.
Raise(site) == "aborted"

\* Variant: check=True is missing from the wget call.
UncheckedWget(tool) == IF tool = "wget" THEN "tar" ELSE "aborted"

\* subprocess.run(..., check=True): a nonzero exit raises CalledProcessError.
CheckedExit(tool) == Raise(tool)

\* Variant: main calls download_libritts right after the gate.
MainRunsLibriFirst == "libri_mkdir"

\* main: check_hf_login(); download_emilia(output_dir); download_libritts(output_dir)
MainAfterGate == "snapshot_download"

AfterEmilia == IF entry = "main" THEN "libri_mkdir" ELSE "done"

AfterLibri == "done"

\* Variant: the "~" is not expanded.
ExpanduserLiteral(h) == <<"~", "datasets">>

\* os.path.expanduser("~/datasets")
Expanduser(h) == h \o <<"datasets">>

\* Variant: "if token is not None:".
TruthyNotNone(t) == t # NoToken

\* "if token:" is Python truthiness: None and "" are both false.
Truthy(t) == t # NoToken /\ t # ""

\* Variant: an existing destination is kept ("if dst.exists(): continue").
SkipExisting(exists) == IF exists THEN "for_lang" ELSE "copytree"

\* if dst.exists(): shutil.rmtree(dst)   and then, either way, copytree
AfterExistsCheck(exists) == IF exists THEN "rmtree" ELSE "copytree"

\* Variant: copytree sits in an else branch of "if dst.exists()".
AfterRmtreeNoCopy == "for_lang"

AfterRmtree == "copytree"

\* Path.mkdir(parents=..., exist_ok=True): the directories after the call, or
\* dirs unchanged with ok = FALSE (FileNotFoundError: no parent).
Mkdir(ds, p, parents) ==
    IF parents
    THEN [ok |-> TRUE, dirs |-> ds \cup Prefixes(p)]
    ELSE IF Parent(p) \in ds
         THEN [ok |-> TRUE, dirs |-> ds \cup {p}]
         ELSE [ok |-> FALSE, dirs |-> ds]

EmiliaPath == output_dir \o <<"Emilia_Dataset">>
RawPath == EmiliaPath \o <<"raw">>
LibriPath == output_dir \o <<"LibriTTS">>

(***************************************************************************)
(* Invocation and main                                                     *)
(***************************************************************************)
Idle == pc \in {"idle", "done", "aborted"}

\* What the invocation's log tells about a function: it was entered (its first
\* statement with an effect ran), it returned.
Returned(fn) == \E i \in 1..Len(log) : log[i] = Ev("return", fn, TRUE)

Entered(fn) ==
    \E i \in 1..Len(log) :
        \/ fn = "download_emilia" /\ log[i].op = "snapshot_download"
        \/ fn = "download_libritts" /\ log[i].op = "mkdir" /\ log[i].arg = "LibriTTS"

StartOf(e) ==
    CASE e = "main" -> "main_resolve"
      [] e = "download_emilia" -> "snapshot_download"

\* A new process calls main(output_dir), or download_emilia(output_dir,
\* revision) directly, the one function with a parameter main never varies.
Invoke ==
    /\ Idle
    /\ runs < MaxRuns
    /\ \E e \in {"main", "download_emilia"} :
         /\ entry' = e
         /\ pc' = StartOf(e)
         /\ output_dir' = IF e = "main" THEN arg ELSE GivenRoot
         /\ revision' \in IF e = "download_emilia" THEN Revisions ELSE {DefaultRevision}
    /\ runs' = runs + 1
    /\ log' = << >>
    /\ rawAtStart' = NoRaw
    /\ emiliaResult' = IF Returned("download_emilia")
                       THEN [emiliaResult EXCEPT ![revision] = Known(raw)]
                       ELSE emiliaResult
    /\ libriLast' = CASE Returned("download_libritts") -> "ok"
                      [] Entered("download_libritts") -> "failed"
                      [] OTHER -> libriLast
    /\ token' = NoToken
    /\ lang' = 0
    /\ subset' = 0
    /\ UNCHANGED << envVars, fsVars >>

\* if output_dir is None: output_dir = os.path.expanduser("~/datasets")
MainResolve ==
    /\ pc = "main_resolve"
    /\ output_dir' = IF output_dir = NoPath THEN Expanduser(home) ELSE output_dir
    /\ pc' = "whoami"
    /\ UNCHANGED << entry, runs, envVars, token, revision, loopVars, fsVars,
                    log, histVars >>

(***************************************************************************)
(* check_hf_login                                                          *)
(***************************************************************************)
\* api.whoami() returns: a credential is cached and the host answers.
WhoamiOk ==
    /\ pc = "whoami"
    /\ Logged("whoami", "-", TRUE)
    /\ pc' = MainAfterGate
    /\ UNCHANGED << entry, runs, envVars, token, output_dir, revision,
                    loopVars, fsVars, histVars >>

\* api.whoami() raises (no credential, or the host is unreachable): caught by
\* "except Exception".
WhoamiFail ==
    /\ pc = "whoami"
    /\ Logged("whoami", "-", FALSE)
    /\ pc' = "getenv"
    /\ UNCHANGED << entry, runs, envVars, token, output_dir, revision,
                    loopVars, fsVars, histVars >>

\* token = os.getenv("HUGGINGFACE_ACCESS_TOKEN"); if token: ... else: ...
Getenv ==
    /\ pc = "getenv"
    /\ Logged("getenv", "-", TRUE)
    /\ token' \in Tokens
    /\ pc' = IF Truthy(token') THEN "login_token" ELSE "login_interactive"
    /\ UNCHANGED << entry, runs, envVars, output_dir, revision,
                    loopVars, fsVars, histVars >>

\* login(token=token) returns, and with it check_hf_login
LoginTokenOk ==
    /\ pc = "login_token"
    /\ Logged("login_token", "-", TRUE)
    /\ pc' = MainAfterGate
    /\ UNCHANGED << entry, runs, envVars, token, output_dir, revision, loopVars,
                    fsVars, histVars >>

LoginTokenFail ==
    /\ pc = "login_token"
    /\ Logged("login_token", "-", FALSE)
    /\ pc' = Raise("login_token")
    /\ UNCHANGED << entry, runs, envVars, token, output_dir, revision,
                    loopVars, fsVars, histVars >>

\* huggingface_hub.commands.user.login() returns, and with it check_hf_login
LoginInteractiveOk ==
    /\ pc = "login_interactive"
    /\ Logged("login_interactive", "-", TRUE)
    /\ pc' = MainAfterGate
    /\ UNCHANGED << entry, runs, envVars, token, output_dir, revision, loopVars,
                    fsVars, histVars >>

LoginInteractiveFail ==
    /\ pc = "login_interactive"
    /\ Logged("login_interactive", "-", FALSE)
    /\ pc' = Raise("login_interactive")
    /\ UNCHANGED << entry, runs, envVars, token, output_dir, revision,
                    loopVars, fsVars, histVars >>

(***************************************************************************)
(* download_emilia                                                         *)
(***************************************************************************)
CurLang == Langs[lang]

\* Variant: shutil.rmtree(raw_dir)-like removal of every language subtree.
RawAfterRmtreeAll(r, l) == [k \in DOMAIN r |-> Absent]

\* shutil.rmtree(dst): dst is gone, nothing else under raw/ is touched.
RawAfterRmtree(r, l) == [r EXCEPT ![l] = Absent]

\* shutil.copytree(src, dst): dst is created (it must not exist) and holds
\* the files of src.
RawAfterCopytree(r, l, rev) == [r EXCEPT ![l] = Tree(Snapshot(rev, l))]

\* cache_dir = snapshot_download(repo_id=..., revision=revision, repo_type="dataset")
SnapshotOk ==
    /\ pc = "snapshot_download"
    /\ Logged("snapshot_download", revision, TRUE)
    /\ rawAtStart' = raw
    /\ pc' = "mkdir_output"
    /\ UNCHANGED << entry, runs, envVars, token, output_dir, revision,
                    loopVars, fsVars, emiliaResult, libriLast >>

SnapshotFail ==
    /\ pc = "snapshot_download"
    /\ Logged("snapshot_download", revision, FALSE)
    /\ pc' = Raise("snapshot_download")
    /\ UNCHANGED << entry, runs, envVars, token, output_dir, revision,
                    loopVars, fsVars, histVars >>

\* output_path.mkdir(parents=True, exist_ok=True)
MkdirOutputOk ==
    /\ pc = "mkdir_output"
    /\ Mkdir(dirs, EmiliaPath, TRUE).ok
    /\ dirs' = Mkdir(dirs, EmiliaPath, TRUE).dirs
    /\ Logged("mkdir", "Emilia_Dataset", TRUE)
    /\ pc' = "mkdir_raw"
    /\ UNCHANGED << entry, runs, envVars, token, output_dir, revision,
                    loopVars, raw, archives, trees, histVars >>

MkdirOutputFail ==
    /\ pc = "mkdir_output"
    /\ Logged("mkdir", "Emilia_Dataset", FALSE)
    /\ pc' = Raise("mkdir_output")
    /\ UNCHANGED << entry, runs, envVars, token, output_dir, revision,
                    loopVars, fsVars, histVars >>

\* raw_dir.mkdir(exist_ok=True), then the loop over the languages starts
MkdirRawOk ==
    /\ pc = "mkdir_raw"
    /\ Mkdir(dirs, RawPath, FALSE).ok
    /\ dirs' = Mkdir(dirs, RawPath, FALSE).dirs
    /\ Logged("mkdir", "raw", TRUE)
    /\ lang' = 0
    /\ pc' = "for_lang"
    /\ UNCHANGED << entry, runs, envVars, token, output_dir, revision,
                    subset, raw, archives, trees, histVars >>

MkdirRawFail ==
    /\ pc = "mkdir_raw"
    /\ Logged("mkdir", "raw", FALSE)
    /\ pc' = Raise("mkdir_raw")
    /\ UNCHANGED << entry, runs, envVars, token, output_dir, revision,
                    loopVars, fsVars, histVars >>

\* for lang in ["EN", "ZH"]: the next language
ForLangNext ==
    /\ pc = "for_lang"
    /\ lang < Len(Langs)
    /\ lang' = lang + 1
    /\ pc' = "dst_exists"
    /\ UNCHANGED << entry, runs, envVars, token, output_dir, revision,
                    subset, fsVars, log, histVars >>

\* the loop is exhausted: download_emilia returns
ForLangEnd ==
    /\ pc = "for_lang"
    /\ lang = Len(Langs)
    /\ lang' = 0
    /\ rawAtStart' = NoRaw
    /\ Logged("return", "download_emilia", TRUE)
    /\ pc' = AfterEmilia
    /\ UNCHANGED << entry, runs, envVars, token, output_dir, revision,
                    subset, fsVars, emiliaResult, libriLast >>

\* if dst.exists():
DstExists ==
    /\ pc = "dst_exists"
    /\ pc' = AfterExistsCheck(raw[CurLang].exists)
    /\ UNCHANGED << entry, runs, envVars, token, output_dir, revision,
                    loopVars, fsVars, log, histVars >>

\* shutil.rmtree(dst)
RmtreeOk ==
    /\ pc = "rmtree"
    /\ raw' = RawAfterRmtree(raw, CurLang)
    /\ Logged("rmtree", CurLang, TRUE)
    /\ pc' = AfterRmtree
    /\ UNCHANGED << entry, runs, envVars, token, output_dir, revision,
                    loopVars, dirs, archives, trees, histVars >>

\* shutil.rmtree(dst) raises part-way: some of the old files are left
RmtreeFail ==
    /\ pc = "rmtree"
    /\ \E left \in SUBSET raw[CurLang].files :
         raw' = [raw EXCEPT ![CurLang] = Tree(left)]
    /\ Logged("rmtree", CurLang, FALSE)
    /\ pc' = Raise("rmtree")
    /\ UNCHANGED << entry, runs, envVars, token, output_dir, revision,
                    loopVars, dirs, archives, trees, histVars >>

\* shutil.copytree(src, dst): os.makedirs(dst) raises FileExistsError when dst
\* exists, so the copy succeeds only onto an absent dst
CopytreeOk ==
    /\ pc = "copytree"
    /\ ~raw[CurLang].exists
    /\ raw' = RawAfterCopytree(raw, CurLang, revision)
    /\ Logged("copytree", CurLang, TRUE)
    /\ pc' = "for_lang"
    /\ UNCHANGED << entry, runs, envVars, token, output_dir, revision,
                    loopVars, dirs, archives, trees, histVars >>

\* shutil.copytree(src, dst) raises: before dst is created (dst untouched), or
\* part-way, with some of the snapshot's files written
CopytreeFail ==
    /\ pc = "copytree"
    /\ \/ raw' = raw
       \/ /\ ~raw[CurLang].exists
          /\ \E part \in (SUBSET Snapshot(revision, CurLang)) \ {Snapshot(revision, CurLang)} :
               raw' = [raw EXCEPT ![CurLang] = Tree(part)]
    /\ Logged("copytree", CurLang, FALSE)
    /\ pc' = Raise("copytree")
    /\ UNCHANGED << entry, runs, envVars, token, output_dir, revision,
                    loopVars, dirs, archives, trees, histVars >>

(***************************************************************************)
(* download_libritts                                                       *)
(***************************************************************************)
CurSubset == Subsets[subset]

\* An archive file under LibriTTS/ is <subset>.tar.gz (n = 0) or
\* <subset>.tar.gz.<n>; full tells a complete <subset>.tar.gz from a truncated
\* one (nothing ever reads a numbered copy: its content is not tracked).
Archive(s, n, full) == [subset |-> s, n |-> n, full |-> (full \/ n > 0)]

HasFile(as, s, n) == \E a \in as : a.subset = s /\ a.n = n

\* subprocess.run(["wget", url, "-P", str(output_path)]): the command line has
\* no -O, -nc, -c or -N, so wget never overwrites: it writes to the first free
\* name among <file>, <file>.1, <file>.2, ...
WgetTarget(as, s) ==
    CHOOSE n \in 0..Cardinality(as) :
        /\ ~HasFile(as, s, n)
        /\ \A m \in 0..n : m < n => HasFile(as, s, m)

\* ["tar", "xzf", str(output_path/tar_file), "-C", ...]: the file tar reads is
\* always <subset>.tar.gz
TarReadsFull(as, s) == \E a \in as : a.subset = s /\ a.n = 0 /\ a.full

\* Variant: the unlink is missing.
ArchivesKept(as, s) == as

\* (output_path/tar_file).unlink(): <subset>.tar.gz is removed
ArchivesAfterUnlink(as, s) == { a \in as : ~(a.subset = s /\ a.n = 0) }

\* output_path.mkdir(parents=True, exist_ok=True)
LibriMkdirOk ==
    /\ pc = "libri_mkdir"
    /\ Mkdir(dirs, LibriPath, TRUE).ok
    /\ dirs' = Mkdir(dirs, LibriPath, TRUE).dirs
    /\ Logged("mkdir", "LibriTTS", TRUE)
    /\ subset' = 0
    /\ pc' = "for_subset"
    /\ UNCHANGED << entry, runs, envVars, token, output_dir, revision,
                    lang, raw, archives, trees, histVars >>

LibriMkdirFail ==
    /\ pc = "libri_mkdir"
    /\ Logged("mkdir", "LibriTTS", FALSE)
    /\ pc' = Raise("libri_mkdir")
    /\ UNCHANGED << entry, runs, envVars, token, output_dir, revision,
                    loopVars, fsVars, histVars >>

\* for subset in subsets: the next subset
ForSubsetNext ==
    /\ pc = "for_subset"
    /\ subset < Len(Subsets)
    /\ subset' = subset + 1
    /\ pc' = "wget"
    /\ UNCHANGED << entry, runs, envVars, token, output_dir, revision,
                    lang, fsVars, log, histVars >>

\* the loop is exhausted: download_libritts returns
ForSubsetEnd ==
    /\ pc = "for_subset"
    /\ subset = Len(Subsets)
    /\ subset' = 0
    /\ Logged("return", "download_libritts", TRUE)
    /\ pc' = AfterLibri
    /\ UNCHANGED << entry, runs, envVars, token, output_dir, revision,
                    lang, fsVars, histVars >>

\* wget exits 0: the complete archive is on disk under wget's target name
WgetOk ==
    /\ pc = "wget"
    /\ archives' = archives \cup {Archive(subset, WgetTarget(archives, subset), TRUE)}
    /\ Logged("wget", CurSubset, TRUE)
    /\ pc' = "tar"
    /\ UNCHANGED << entry, runs, envVars, token, output_dir, revision,
                    loopVars, dirs, raw, trees, histVars >>

\* wget exits nonzero: nothing was written, or a truncated file is left
WgetFail ==
    /\ pc = "wget"
    /\ \/ archives' = archives
       \/ archives' = archives \cup {Archive(subset, WgetTarget(archives, subset), FALSE)}
    /\ Logged("wget", CurSubset, FALSE)
    /\ pc' = CheckedExit("wget")
    /\ UNCHANGED << entry, runs, envVars, token, output_dir, revision,
                    loopVars, dirs, raw, trees, histVars >>

\* tar exits 0: it read a complete <subset>.tar.gz and the tree is extracted
TarOk ==
    /\ pc = "tar"
    /\ TarReadsFull(archives, subset)
    /\ trees' = [trees EXCEPT ![subset] = "full"]
    /\ Logged("tar", CurSubset, TRUE)
    /\ pc' = "unlink"
    /\ UNCHANGED << entry, runs, envVars, token, output_dir, revision,
                    loopVars, dirs, raw, archives, histVars >>

\* tar exits nonzero (missing or truncated archive, full disk, ...): the tree
\* is as it was, or part of it was written
TarFail ==
    /\ pc = "tar"
    /\ \/ trees' = trees
       \/ /\ HasFile(archives, subset, 0)
          /\ trees' = [trees EXCEPT ![subset] = "partial"]
    /\ Logged("tar", CurSubset, FALSE)
    /\ pc' = CheckedExit("tar")
    /\ UNCHANGED << entry, runs, envVars, token, output_dir, revision,
                    loopVars, dirs, raw, archives, histVars >>

\* (output_path/tar_file).unlink()
UnlinkOk ==
    /\ pc = "unlink"
    /\ HasFile(archives, subset, 0)
    /\ archives' = ArchivesAfterUnlink(archives, subset)
    /\ Logged("unlink", CurSubset, TRUE)
    /\ pc' = "for_subset"
    /\ UNCHANGED << entry, runs, envVars, token, output_dir, revision,
                    loopVars, dirs, raw, trees, histVars >>

\* unlink raises (FileNotFoundError, PermissionError)
UnlinkFail ==
    /\ pc = "unlink"
    /\ Logged("unlink", CurSubset, FALSE)
    /\ pc' = Raise("unlink")
    /\ UNCHANGED << entry, runs, envVars, token, output_dir, revision,
                    loopVars, fsVars, histVars >>

(***************************************************************************)
(* Specification                                                           *)
(***************************************************************************)
Next ==
    \/ Invoke
    \/ MainResolve
    \/ WhoamiOk
    \/ WhoamiFail
    \/ Getenv
    \/ LoginTokenOk
    \/ LoginTokenFail
    \/ LoginInteractiveOk
    \/ LoginInteractiveFail
    \/ SnapshotOk
    \/ SnapshotFail
    \/ MkdirOutputOk
    \/ MkdirOutputFail
    \/ MkdirRawOk
    \/ MkdirRawFail
    \/ ForLangNext
    \/ ForLangEnd
    \/ DstExists
    \/ RmtreeOk
    \/ RmtreeFail
    \/ CopytreeOk
    \/ CopytreeFail
    \/ LibriMkdirOk
    \/ LibriMkdirFail
    \/ ForSubsetNext
    \/ ForSubsetEnd
    \/ WgetOk
    \/ WgetFail
    \/ TarOk
    \/ TarFail
    \/ UnlinkOk
    \/ UnlinkFail

Spec == Init /\ [][Next]_vars

(***************************************************************************)
(* Reading the log                                                         *)
(***************************************************************************)
Has(op, a, ok) == \E i \in 1..Len(log) : log[i] = Ev(op, a, ok)

Count(op) == Cardinality({ i \in 1..Len(log) : log[i].op = op })

GateOps == {"whoami", "getenv", "login_token", "login_interactive"}

IsGate(e) == e.op \in GateOps

IsEmilia(e) ==
    \/ e.op \in {"snapshot_download", "rmtree", "copytree"}
    \/ e.op = "mkdir" /\ e.arg \in {"Emilia_Dataset", "raw"}
    \/ e.op = "return" /\ e.arg = "download_emilia"

IsLibri(e) ==
    \/ e.op \in {"wget", "tar", "unlink"}
    \/ e.op = "mkdir" /\ e.arg = "LibriTTS"
    \/ e.op = "return" /\ e.arg = "download_libritts"

\* A network download: the snapshot download and wget.
IsDownload(e) == e.op \in {"snapshot_download", "wget"}

\* check_hf_login has returned before the i-th call
GateDoneBefore(i) ==
    \E j \in 1..(i - 1) :
        log[j].ok /\ log[j].op \in {"whoami", "login_token", "login_interactive"}

EmiliaDoneBefore(i) ==
    \E j \in 1..(i - 1) : log[j] = Ev("return", "download_emilia", TRUE)

\* download_emilia is at its last statement, the loop being exhausted
EmiliaReturning == pc = "for_lang" /\ lang = Len(Langs)

Mirrors(r, rev) == \A i \in 1..Len(Langs) : r[Langs[i]] = Tree(Snapshot(rev, Langs[i]))

AllExtracted == \A s \in 1..Len(Subsets) : trees[s] = "full"

(***************************************************************************)
(* Claims                                                                  *)
(***************************************************************************)

\* C1: in a run of main the calls of the credential gate all come first, a
\* call of download_emilia is made only after the gate has returned, a call
\* of download_libritts only after download_emilia has returned; a failed
\* call (other than whoami, which is handled) is the last call of the run and
\* the run is aborted; the run ends successfully only with both fetchers
\* returned, and is aborted only by a failed call.
C1_FixedOrder ==
    entry = "main" =>
      /\ \A i \in 1..Len(log) :
           /\ IsGate(log[i]) => \A j \in 1..i : IsGate(log[j])
           /\ IsEmilia(log[i]) => GateDoneBefore(i) /\ ~EmiliaDoneBefore(i)
           /\ IsLibri(log[i]) => GateDoneBefore(i) /\ EmiliaDoneBefore(i)
           /\ (~log[i].ok /\ log[i].op # "whoami") => i = Len(log) /\ pc = "aborted"
      /\ pc = "done" => Returned("download_emilia") /\ Returned("download_libritts")
      /\ pc = "aborted" => Len(log) > 0 /\ ~log[Len(log)].ok

C1_Witness ==
    /\ entry = "main"
    /\ pc = "done"
    /\ Has("whoami", "-", FALSE)
    /\ Has("unlink", "train-other-500", TRUE)

\* C2: in a run of main where whoami failed and the environment token is
\* unset (None or empty), every download (snapshot_download, wget) comes after
\* a successful interactive login, and a failed interactive login aborts the
\* run with no download in it.
C2_LoginBeforeDownload ==
    (entry = "main" /\ Has("whoami", "-", FALSE) /\ Has("getenv", "-", TRUE)
       /\ token \in {NoToken, ""}) =>
      /\ \A i \in 1..Len(log) :
           IsDownload(log[i]) =>
             \E j \in 1..(i - 1) : log[j] = Ev("login_interactive", "-", TRUE)
      /\ Has("login_interactive", "-", FALSE) =>
           /\ pc = "aborted"
           /\ \A i \in 1..Len(log) : ~IsDownload(log[i])

C2_Witness ==
    /\ entry = "main"
    /\ token = NoToken
    /\ Has("whoami", "-", FALSE)
    /\ Has("login_interactive", "-", TRUE)
    /\ Has("snapshot_download", DefaultRevision, TRUE)
    /\ Has("wget", "train-clean-100", TRUE)

\* C3: the gate takes one of three paths: whoami succeeded - no getenv, no
\* login; whoami failed and the token is non-empty - one token login, no
\* interactive login; whoami failed and the token is None or empty - one
\* interactive login, no token login.
C3_OnePath ==
    entry = "main" =>
      /\ Count("whoami") <= 1
      /\ Has("whoami", "-", TRUE) =>
           Count("getenv") = 0 /\ Count("login_token") = 0
             /\ Count("login_interactive") = 0
      /\ (Has("whoami", "-", FALSE)
            /\ pc \notin {"getenv", "login_token", "login_interactive"}) =>
           /\ Count("getenv") = 1
           /\ token \notin {NoToken, ""} =>
                Count("login_token") = 1 /\ Count("login_interactive") = 0
           /\ token \in {NoToken, ""} =>
                Count("login_interactive") = 1 /\ Count("login_token") = 0

C3_Witness ==
    /\ entry = "main"
    /\ pc = "done"
    /\ token = ""
    /\ Has("login_interactive", "-", TRUE)

\* C4: once wget has exited nonzero for train-clean-360 the run is aborted,
\* train-clean-100 is extracted and train-clean-100.tar.gz is gone, tar was
\* not run for train-clean-360 and nothing was run for train-other-500.
C4_Wget360Fails ==
    Has("wget", "train-clean-360", FALSE) =>
      /\ pc = "aborted"
      /\ ~Returned("download_libritts")
      /\ trees[1] = "full"
      /\ ~HasFile(archives, 1, 0)
      /\ Count("tar") = 1
      /\ \A i \in 1..Len(log) : log[i].arg # "train-other-500"

C4_Witness ==
    /\ Has("wget", "train-clean-360", FALSE)
    /\ Has("unlink", "train-clean-100", TRUE)

\* C5 as stated: whenever a subset has finished processing there is no archive
\* file at all under LibriTTS/, and after download_libritts has returned the
\* three trees are extracted and no *.tar.gz file is left.
C5_NoArchiveAtAll ==
    /\ (pc = "for_subset" /\ subset >= 1) => archives = {}
    /\ Returned("download_libritts") =>
         AllExtracted /\ \A a \in archives : a.n # 0

\* C5, amended: whenever a subset has finished processing its tree is
\* extracted and its own archive <subset>.tar.gz is gone (archives a failed
\* earlier run left for later subsets, and the numbered copies wget wrote
\* beside a leftover archive, can still be there), and after download_libritts
\* has returned the three trees are extracted and no *.tar.gz file is left.
C5_OwnArchiveGone ==
    /\ (pc = "for_subset" /\ subset >= 1) =>
         trees[subset] = "full" /\ ~HasFile(archives, subset, 0)
    /\ Returned("download_libritts") =>
         AllExtracted /\ \A a \in archives : a.n # 0

C5_Witness ==
    /\ Returned("download_libritts")
    /\ libriLast = "failed"
    /\ AllExtracted

\* C6: when download_emilia returns (and from then on), raw/EN and raw/ZH each
\* hold exactly the files of the snapshot's subtree, whatever they held when
\* the function was entered.
C6_Replaced ==
    (EmiliaReturning \/ Returned("download_emilia")) => Mirrors(raw, revision)

\* raw/EN held a file that is not in the snapshot when the function was entered
C6_Witness ==
    /\ EmiliaReturning
    /\ rawAtStart["EN"].exists
    /\ \E f \in rawAtStart["EN"].files : f \notin Snapshot(revision, "EN")
    /\ rawAtStart["ZH"].exists

\* C7: when download_emilia returns for a revision for which an earlier
\* invocation already returned successfully, raw is what that earlier run left.
C7_Idempotent ==
    ((EmiliaReturning \/ Returned("download_emilia")) /\ emiliaResult[revision].known) =>
      raw = emiliaResult[revision].raw

\* a second successful run of a revision, entered with the other revision's
\* files in place
C7_Witness ==
    /\ EmiliaReturning
    /\ emiliaResult[revision].known
    /\ rawAtStart # emiliaResult[revision].raw
    /\ rawAtStart["EN"].exists

C9_RerunRecovers ==
    (Returned("download_libritts") /\ libriLast = "failed") =>
      AllExtracted /\ archives = {}

\* The copy phase of download_emilia failed: the last call of the aborted run
\* is a failed rmtree or copytree.
CopyPhaseFailed ==
    /\ pc = "aborted"
    /\ Len(log) > 0
    /\ log[Len(log)].op \in {"rmtree", "copytree"}

FullyCopied(l) == raw[l] = Tree(Snapshot(revision, l))

AbsentOrPartial(l) ==
    \/ ~raw[l].exists
    \/ raw[l].files \subseteq Snapshot(revision, l) /\ raw[l].files # Snapshot(revision, l)

\* C10 as stated: after a failure in the copy phase one language subtree is
\* fully copied from the snapshot and the other is absent or partially written.
C10_OneCopied ==
    CopyPhaseFailed =>
      \E l \in {"EN", "ZH"} : \E m \in {"EN", "ZH"} \ {l} :
          FullyCopied(l) /\ AbsentOrPartial(m)

\* what a failed rmtree or copytree leaves of the subtree it worked on
LeftByFailure(l) ==
    \/ AbsentOrPartial(l)
    \/ rawAtStart[l].exists /\ raw[l].exists /\ raw[l].files \subseteq rawAtStart[l].files

\* C10, amended: nothing is cleaned up after a failure in the copy phase. When
\* it fails while processing ZH, raw/EN is fully copied from the snapshot and
\* raw/ZH is absent, partially written or still holds some or all of its
\* previous files; when it fails while processing EN, raw/ZH is as it was
\* before the run and raw/EN is absent, partially written or still holds some
\* or all of its previous files.
C10_NoCleanup ==
    CopyPhaseFailed =>
      /\ log[Len(log)].arg = "ZH" => FullyCopied("EN") /\ LeftByFailure("ZH")
      /\ log[Len(log)].arg = "EN" => raw["ZH"] = rawAtStart["ZH"] /\ LeftByFailure("EN")

C10_Witness ==
    /\ CopyPhaseFailed
    /\ log[Len(log)] = Ev("copytree", "ZH", FALSE)
    /\ FullyCopied("EN")
    /\ rawAtStart["EN"].exists
    /\ raw["ZH"].exists
    /\ raw["ZH"].files # Snapshot(revision, "ZH")

=============================================================================
